---- MODULE Spec2Model ----
(***************************************************************************)
(* Zone-aware load balancing client of lb-simulations (src/src/lib.rs):    *)
(* Client::new derives the per-zone multipliers from a backend registry,   *)
(* Client::sample selects one backend by one-pass weighted sampling.       *)
(*                                                                         *)
(* f64 values are modelled exactly: a finite value is a reduced fraction   *)
(* <<n, d>> with d > 0, and the IEEE special values a division by zero     *)
(* produces are <<0, 0>> (NaN), <<1, 0>> (+inf) and <<-1, 0>> (-inf).      *)
(* Rounding is not modelled, and neither is the sign of zero (no code path *)
(* of the client depends on it).                                           *)
(***************************************************************************)
EXTENDS Integers, Sequences, FiniteSets, TLC

VARIABLES registry, client, pred, result, pc, clients, tally, served

vars == <<registry, client, pred, result, pc, clients, tally, served>>

-----------------------------------------------------------------------------
(* Bounds of the model. *)

\* Longest registry (number of backends) the model enumerates.
MaxBackends == 3

\* Zone(u8): the zones a registry or a client may name, in their order.
ZoneOrder == <<"a", "b", "c">>

Zones == {ZoneOrder[i] : i \in DOMAIN ZoneOrder}

\* The capacities a backend may have (whole numbers, as f64).
Capacities == {1, 2}

-----------------------------------------------------------------------------
(* f64 arithmetic. *)

NaN == <<0, 0>>
Zero == <<0, 1>>
One == <<1, 1>>

Abs(n) == IF n < 0 THEN -n ELSE n

Sgn(n) == IF n < 0 THEN -1 ELSE IF n > 0 THEN 1 ELSE 0

RECURSIVE Gcd(_, _)
Gcd(m, n) == IF n = 0 THEN m ELSE Gcd(n, m % n)

\* The value n / d, reduced; d = 0 gives NaN or an infinity.
F64(n, d) ==
    IF d = 0 THEN <<Sgn(n), 0>>
    ELSE LET g == Gcd(Abs(n), Abs(d))
         IN  <<(Sgn(d) * n) \div g, Abs(d) \div g>>

IsNaN(x) == x = NaN

IsFinite(x) == x[2] # 0

Mul(x, y) == F64(x[1] * y[1], x[2] * y[2])

Add(x, y) ==
    IF IsFinite(x) /\ IsFinite(y) THEN F64(x[1] * y[2] + y[1] * x[2], x[2] * y[2])
    ELSE IF IsNaN(x) \/ IsNaN(y) THEN NaN
    ELSE IF IsFinite(y) THEN x
    ELSE IF IsFinite(x) THEN y
    ELSE IF x = y THEN x ELSE NaN

Neg(x) == <<-x[1], x[2]>>

Sub(x, y) == Add(x, Neg(y))

\* 1 / y: 1/0 is +inf, 1/inf is 0, 1/NaN is NaN.
Recip(y) ==
    IF IsNaN(y) THEN NaN
    ELSE IF y[1] = 0 THEN <<1, 0>>
    ELSE IF y[1] < 0 THEN <<-y[2], -y[1]>>
    ELSE <<y[2], y[1]>>

Div(x, y) == Mul(x, Recip(y))

\* x < y; false when either side is NaN.
Lt(x, y) ==
    /\ ~IsNaN(x)
    /\ ~IsNaN(y)
    /\ IF IsFinite(x) \/ IsFinite(y) THEN x[1] * y[2] < y[1] * x[2] ELSE x[1] < y[1]

Le(x, y) == ~IsNaN(x) /\ ~IsNaN(y) /\ (x = y \/ Lt(x, y))

Gt(x, y) == Lt(y, x)

Ge(x, y) == Le(y, x)

-----------------------------------------------------------------------------
(* Backends and registries. *)

\* Option<BackendId>: None is the empty sequence, Some(id) is <<id>>.
None == <<>>

Some(id) == <<id>>

\* struct Backend.  The subset field is read by eligibility predicates alone;
\* a predicate is modelled by the set of backend ids it accepts.
Backend(id, zone, capacity) == [id |-> id, zone |-> zone, capacity |-> capacity]

\* Registries of n backends: ids are the positions 0..n-1 (as the harness
\* numbers them), zones and capacities are free.
RegistriesOfLen(n) ==
    { [i \in 1..n |-> Backend(i - 1, zs[i], F64(cs[i], 1))] :
        zs \in [1..n -> Zones], cs \in [1..n -> Capacities] }

Registries == UNION { RegistriesOfLen(n) : n \in 0..MaxBackends }

-----------------------------------------------------------------------------
(* Client::new *)

RECURSIVE CapacityUpTo(_, _, _)
\* Sum of the capacities of those of the first n backends whose zone is in zs.
CapacityUpTo(backends, n, zs) ==
    IF n = 0 THEN Zero
    ELSE LET rest == CapacityUpTo(backends, n - 1, zs)
         IN  IF backends[n].zone \in zs THEN Add(rest, backends[n].capacity) ELSE rest

\* The zones that have a backend.
ZonesOf(backends) == {backends[i].zone : i \in DOMAIN backends}

\* total_capacity
TotalCapacity(backends) == CapacityUpTo(backends, Len(backends), ZonesOf(backends))

\* per_zone_capacity: a map whose keys are the zones that have a backend.
PerZoneCapacity(backends) ==
    [z \in ZonesOf(backends) |-> CapacityUpTo(backends, Len(backends), {z})]

\* num_zones
NumZones(per_zone_capacity) == F64(Cardinality(DOMAIN per_zone_capacity), 1)

\* avg_capacity; 0/0 = NaN for an empty registry.
AvgCapacity(total_capacity, num_zones) == Div(total_capacity, num_zones)

\* my_zone_capacity: 0 when the zone has no backend.
MyZoneCapacity(zone, per_zone_capacity) ==
    IF zone \in DOMAIN per_zone_capacity THEN per_zone_capacity[zone] ELSE Zero

\* One zone's term of surplus_capacity.
ZoneSurplus(cap, avg_capacity) ==
    IF Gt(cap, avg_capacity) THEN Sub(cap, avg_capacity) ELSE Zero

RECURSIVE SumSurplus(_, _, _)
\* The terms of the zones zs, summed.
SumSurplus(per_zone_capacity, zs, avg_capacity) ==
    IF zs = {} THEN Zero
    ELSE LET z == CHOOSE x \in zs : TRUE
         IN  Add(ZoneSurplus(per_zone_capacity[z], avg_capacity),
                 SumSurplus(per_zone_capacity, zs \ {z}, avg_capacity))

\* surplus_capacity
SurplusCapacity(per_zone_capacity, avg_capacity) ==
    SumSurplus(per_zone_capacity, DOMAIN per_zone_capacity, avg_capacity)

\* The test that sends Client::new into its first branch: stay in-zone.
StaysInZone(my_zone_capacity, avg_capacity) == Ge(my_zone_capacity, avg_capacity)

\* in_zone
InZone(my_zone_capacity, avg_capacity) == Div(my_zone_capacity, avg_capacity)

\* cross_zone
CrossZone(in_zone) == Sub(One, in_zone)

\* UnderCapacity with the comparison turned around.
UnderCapacityReversed(zone_cap, avg_capacity) == Ge(zone_cap, avg_capacity)

\* The test that keeps zone z out of the cross-zone traffic.
UnderCapacity(zone_cap, avg_capacity) == Le(zone_cap, avg_capacity)

\* SpillShare in proportion to the zone's capacity, not to its surplus.
SpillShareByCapacity(zone_cap, cross_zone, avg_capacity, surplus_capacity) ==
    Div(Mul(cross_zone, zone_cap), surplus_capacity)

\* The share of the cross-zone traffic sent to a zone above the average.
SpillShare(zone_cap, cross_zone, avg_capacity, surplus_capacity) ==
    Div(Mul(cross_zone, Sub(zone_cap, avg_capacity)), surplus_capacity)

\* zone_weight of zone z for a client of an under-capacity zone.
ZoneWeight(zone, z, zone_cap, in_zone, avg_capacity, surplus_capacity) ==
    IF z = zone THEN in_zone
    ELSE IF UnderCapacity(zone_cap, avg_capacity) THEN Zero
    ELSE SpillShare(zone_cap, CrossZone(in_zone), avg_capacity, surplus_capacity)

\* InZoneWeights with an entry for every zone of the registry as well.
InZoneWeightsEverywhere(zone, per_zone_capacity) ==
    [z \in DOMAIN per_zone_capacity \cup {zone} |-> One]

\* zone_weights of a client that stays in-zone.
InZoneWeights(zone, per_zone_capacity) == zone :> One

\* SpillWeights without the division by the zone's capacity.
SpillWeightsUnscaled(zone, per_zone_capacity, in_zone, avg_capacity, surplus_capacity) ==
    [z \in DOMAIN per_zone_capacity |->
        ZoneWeight(zone, z, per_zone_capacity[z], in_zone, avg_capacity, surplus_capacity)]

\* zone_weights of a client of an under-capacity zone.
SpillWeights(zone, per_zone_capacity, in_zone, avg_capacity, surplus_capacity) ==
    [z \in DOMAIN per_zone_capacity |->
        Div(ZoneWeight(zone, z, per_zone_capacity[z], in_zone, avg_capacity,
                       surplus_capacity),
            per_zone_capacity[z])]

\* zone_weights
ZoneWeights(zone, backends) ==
    LET total_capacity == TotalCapacity(backends)
        per_zone_capacity == PerZoneCapacity(backends)
        avg_capacity == AvgCapacity(total_capacity, NumZones(per_zone_capacity))
        my_zone_capacity == MyZoneCapacity(zone, per_zone_capacity)
        surplus_capacity == SurplusCapacity(per_zone_capacity, avg_capacity)
    IN  IF StaysInZone(my_zone_capacity, avg_capacity)
        THEN InZoneWeights(zone, per_zone_capacity)
        ELSE SpillWeights(zone, per_zone_capacity,
                          InZone(my_zone_capacity, avg_capacity),
                          avg_capacity, surplus_capacity)

\* Client::new(zone, backends); the prng field is the source of the draws
\* that sample takes as an input.
ClientNew(zone, backends) ==
    [zone |-> zone, zonal_multiplier |-> ZoneWeights(zone, backends), backends |-> backends]

-----------------------------------------------------------------------------
(* Client::sample *)

\* Eligible with the predicate left out.
EligibleAlways(p, b) == TRUE

\* p(b): the predicate p is the set of backend ids it accepts.
Eligible(p, b) == b.id \in p

\* self.zonal_multiplier.get(&b.zone) is Some
HasMultiplier(c, b) == b.zone \in DOMAIN c.zonal_multiplier

\* weight = lambda * b.capacity
Weight(c, b) == Mul(c.zonal_multiplier[b.zone], b.capacity)

\* StepTotal assigning where it should add.
StepTotalReset(total_weight, weight) == weight

\* total_weight += weight
StepTotal(total_weight, weight) == Add(total_weight, weight)

\* StepRatio read before total_weight is increased.
StepRatioStale(total_weight, weight) == Div(weight, total_weight)

\* weight / total_weight, read after total_weight was increased by weight.
StepRatio(total_weight, weight) == Div(weight, StepTotal(total_weight, weight))

\* Accepted with the operands of < exchanged.
AcceptedReversed(r, ratio) == Lt(ratio, r)

\* Accepted with <= for <.
AcceptedOrEqual(r, ratio) == Le(r, ratio)

\* self.prng.gen::<f64>() < weight / total_weight, for the draw r.
Accepted(r, ratio) == Lt(r, ratio)

\* The backends that reach the acceptance draw, in list order.
Candidates(c, p) ==
    SelectSeq(c.backends, LAMBDA b : Eligible(p, b) /\ HasMultiplier(c, b))

RECURSIVE SampleLoop(_, _, _, _, _, _)
\* The loop of sample from backend i on; rs holds the draws not yet taken.
SampleLoop(c, p, rs, i, cur, total_weight) ==
    IF i > Len(c.backends) THEN cur
    ELSE LET b == c.backends[i]
         IN  IF ~Eligible(p, b) THEN SampleLoop(c, p, rs, i + 1, cur, total_weight)
             ELSE IF ~HasMultiplier(c, b) THEN SampleLoop(c, p, rs, i + 1, cur, total_weight)
             ELSE LET weight == Weight(c, b)
                  IN  SampleLoop(c, p, Tail(rs), i + 1,
                                 IF Accepted(Head(rs), StepRatio(total_weight, weight))
                                 THEN Some(b.id) ELSE cur,
                                 StepTotal(total_weight, weight))

\* Client::sample(p), the prng yielding the draws rs in turn.
Sample(c, p, rs) == SampleLoop(c, p, rs, 1, None, Zero)

\* The probability that a draw uniform on [0, 1) is below ratio.
ProbAccepted(ratio) ==
    IF IsNaN(ratio) \/ Le(ratio, Zero) THEN Zero
    ELSE IF Ge(ratio, One) THEN One
    ELSE ratio

RECURSIVE DistLoop(_, _, _, _, _)
\* The loop of sample from backend i on, run on the distribution of cur:
\* dist[x] is the probability that cur = x before backend i is visited.
DistLoop(c, p, i, dist, total_weight) ==
    IF i > Len(c.backends) THEN dist
    ELSE LET b == c.backends[i]
         IN  IF ~Eligible(p, b) THEN DistLoop(c, p, i + 1, dist, total_weight)
             ELSE IF ~HasMultiplier(c, b) THEN DistLoop(c, p, i + 1, dist, total_weight)
             ELSE LET weight == Weight(c, b)
                      q == ProbAccepted(StepRatio(total_weight, weight))
                  IN  DistLoop(c, p, i + 1,
                               [x \in DOMAIN dist |->
                                   Add(IF x = Some(b.id) THEN q ELSE Zero,
                                       Mul(Sub(One, q), dist[x]))],
                               StepTotal(total_weight, weight))

\* The values sample can return.
Outcomes(c) == {None} \cup {Some(c.backends[i].id) : i \in DOMAIN c.backends}

\* The distribution of the value sample(p) returns when every draw is
\* uniform on [0, 1) and the draws are independent.
SampleDist(c, p) ==
    DistLoop(c, p, 1, [x \in Outcomes(c) |-> IF x = None THEN One ELSE Zero], Zero)

-----------------------------------------------------------------------------
(* One client: construction, then a selection.  sample changes no field of *)
(* the client but the prng, whose output is the input rs of DoSample, so a *)
(* further call on the same client is a call on a client constructed anew. *)

\* The draws the random source can yield: the least value of [0, 1) and one
\* near its upper end, so that a candidate whose ratio lies in (0, 15/16] is
\* accepted by one draw and refused by the other.
Draws == {F64(0, 1), F64(15, 16)}

Ids(backends) == {backends[i].id : i \in DOMAIN backends}

Init ==
    /\ registry \in Registries
    /\ client = <<>>
    /\ pred = {}
    /\ result = None
    /\ pc = "start"
    /\ clients = <<>>
    /\ tally = <<>>
    /\ served = 0

\* Client::new(zone, registry)
New(zone) ==
    /\ client' = <<ClientNew(zone, registry)>>
    /\ pred' = {}
    /\ result' = None
    /\ pc' = "ready"
    /\ UNCHANGED <<registry, clients, tally, served>>

\* client.sample(p), the random source yielding the draws rs
DoSample(p, rs) ==
    /\ pc = "ready"
    /\ pred' = p
    /\ result' = Sample(client[1], p, rs)
    /\ pc' = "sampled"
    /\ UNCHANGED <<registry, client, clients, tally, served>>

Next ==
    \/ \E zone \in Zones : New(zone)
    \/ /\ pc = "ready"
       /\ \E p \in SUBSET Ids(registry) :
             \E rs \in [1..Len(Candidates(client[1], p)) -> Draws] : DoSample(p, rs)

Spec == Init /\ [][Next]_vars

-----------------------------------------------------------------------------
(* What Client::new computed for the client of the current state. *)

Cur == client[1]

CurPerZone == PerZoneCapacity(registry)

CurAvg == AvgCapacity(TotalCapacity(registry), NumZones(CurPerZone))

CurHome == MyZoneCapacity(Cur.zone, CurPerZone)

CurSurplus == SurplusCapacity(CurPerZone, CurAvg)

Built == pc \in {"ready", "sampled"}

\* The backend of the registry with the given id.
BackendOf(id) == registry[CHOOSE i \in DOMAIN registry : registry[i].id = id]

RECURSIVE SumMultiplied(_, _, _)
\* Sum over the zones zs of multiplier[z] * per_zone_capacity[z].
SumMultiplied(multiplier, per_zone_capacity, zs) ==
    IF zs = {} THEN Zero
    ELSE LET z == CHOOSE x \in zs : TRUE
         IN  Add(Mul(multiplier[z], per_zone_capacity[z]),
                 SumMultiplied(multiplier, per_zone_capacity, zs \ {z}))

NormSum == SumMultiplied(Cur.zonal_multiplier, CurPerZone, DOMAIN Cur.zonal_multiplier)

RECURSIVE SumWeights(_, _)
\* The weights of the backends bs, summed.
SumWeights(c, bs) ==
    IF bs = <<>> THEN Zero ELSE Add(Weight(c, Head(bs)), SumWeights(c, Tail(bs)))

-----------------------------------------------------------------------------
(* C1 *)

\* C1 as stated: every client built from a non-empty registry has
\* sum over z of multiplier[z] * perZoneCapacity[z] = 1.
C1_NormalizedAlways == (Built /\ registry # <<>>) => NormSum = One

\* C1, amended: the sum is 1 for a client whose home zone is below the
\* average while some zone is above it (whether or not the home zone has
\* backends); it is the home zone's capacity for a client that stays in-zone,
\* and the in-zone fraction (0, the home zone having no backends) for a
\* client below the average when no zone is above it.
C1_Normalized ==
    (Built /\ registry # <<>>) =>
        /\ (Lt(CurHome, CurAvg) /\ Gt(CurSurplus, Zero)) => NormSum = One
        /\ Ge(CurHome, CurAvg) => NormSum = CurHome
        /\ (Lt(CurHome, CurAvg) /\ CurSurplus = Zero) =>
              (NormSum = InZone(CurHome, CurAvg) /\ NormSum = Zero)

\* A client of a zone that has backends but is below the average, in a
\* registry of three zones, spilling into a zone of capacity above 1.
C1_Witness ==
    /\ Built
    /\ Lt(CurHome, CurAvg)
    /\ Gt(CurHome, Zero)
    /\ Cardinality(DOMAIN CurPerZone) = 3
    /\ \E z \in DOMAIN CurPerZone : Gt(CurPerZone[z], One) /\ Gt(Cur.zonal_multiplier[z], Zero)
    /\ NormSum = One

-----------------------------------------------------------------------------
(* C2 *)

\* The candidates of the last call of sample.
CurCandidates == Candidates(Cur, pred)

AllPositive(c, bs) == \A i \in DOMAIN bs : Gt(Weight(c, bs[i]), Zero)

\* C2: when every candidate of a call of sample has a positive weight, and
\* the draws are uniform on [0, 1), candidate i is the value returned with
\* probability w_i / (w_1 + ... + w_n), whatever the order of the backend
\* list (every order is a registry of the model).  The value the call
\* returned is one of positive probability.
C2_Proportional ==
    pc = "sampled" =>
        LET bs == CurCandidates
            dist == SampleDist(Cur, pred)
            total == SumWeights(Cur, bs)
        IN  /\ Gt(dist[result], Zero)
            /\ (bs # <<>> /\ AllPositive(Cur, bs)) =>
                  \A i \in DOMAIN bs :
                      dist[Some(bs[i].id)] = Div(Weight(Cur, bs[i]), total)

\* A call with three candidates of positive weight from two zones, the
\* first lighter than the second and the second heavier than the third.
C2_Witness ==
    /\ pc = "sampled"
    /\ Len(CurCandidates) = 3
    /\ CurCandidates[1].zone # CurCandidates[2].zone
    /\ AllPositive(Cur, CurCandidates)
    /\ Lt(Weight(Cur, CurCandidates[1]), Weight(Cur, CurCandidates[2]))
    /\ Gt(Weight(Cur, CurCandidates[2]), Weight(Cur, CurCandidates[3]))

-----------------------------------------------------------------------------
(* C3 *)

\* C3 as stated: constructing a client from a registry with zero backends
\* fails: no Client value is produced, and no average is computed by a
\* division by a zone count of zero.
C3_EmptyRegistryFails == registry = <<>> => (client = <<>> /\ pc = "start")

-----------------------------------------------------------------------------
(* C4 *)

\* Client::new reaches the division by surplus_capacity for some zone.
DividesBySurplus ==
    /\ ~StaysInZone(CurHome, CurAvg)
    /\ \E z \in DOMAIN CurPerZone : z # Cur.zone /\ ~UnderCapacity(CurPerZone[z], CurAvg)

\* The home zone is below the average and no zone is above it.
NoSurplus == Built /\ registry # <<>> /\ Lt(CurHome, CurAvg) /\ CurSurplus = Zero

\* C4 as stated: a client below the average with a total surplus of 0 gets
\* the multiplier map { homeZone: 1.0 }, and no division by the surplus
\* takes place.
C4_FallsBackInZone ==
    NoSurplus => (Cur.zonal_multiplier = (Cur.zone :> One) /\ ~DividesBySurplus)

-----------------------------------------------------------------------------
(* C5 *)

\* C5: a client whose home zone is at or above the average has a multiplier
\* for its home zone alone, and sample returns none or a backend of the home
\* zone.
C5_HomeOnly ==
    (Built /\ Ge(CurHome, CurAvg)) =>
        /\ DOMAIN Cur.zonal_multiplier = {Cur.zone}
        /\ pc = "sampled" => (result = None \/ BackendOf(result[1]).zone = Cur.zone)

\* A client at or above the average returned a home backend from a call
\* that also accepted a backend of another zone.
C5_Witness ==
    /\ pc = "sampled"
    /\ Ge(CurHome, CurAvg)
    /\ result # None
    /\ \E id \in pred : BackendOf(id).zone # Cur.zone

-----------------------------------------------------------------------------
(* C7 *)

\* C7: a call of sample whose predicate rejects every backend returns none.
C7_RejectAll == (pc = "sampled" /\ pred = {}) => result = None

\* A call that rejected every backend of a registry in which the client has
\* a backend of positive weight.
C7_Witness ==
    /\ pc = "sampled"
    /\ pred = {}
    /\ \E i \in DOMAIN registry :
          HasMultiplier(Cur, registry[i]) /\ Gt(Weight(Cur, registry[i]), Zero)

-----------------------------------------------------------------------------
(* C8 *)

\* The candidates of positive weight.
PositiveAt(c, bs) == {i \in DOMAIN bs : Gt(Weight(c, bs[i]), Zero)}

\* C8: a call of sample in which some backend passes the predicate and has
\* a positive weight returns a backend id, whatever the draws; the first
\* such candidate is tested against the ratio 1, the total counting its
\* weight already.
C8_SomeReturned ==
    pc = "sampled" =>
        LET bs == CurCandidates
            positive == PositiveAt(Cur, bs)
            first == CHOOSE i \in positive : \A j \in positive : i <= j
        IN  positive # {} =>
                /\ result # None
                /\ StepRatio(SumWeights(Cur, SubSeq(bs, 1, first - 1)),
                             Weight(Cur, bs[first])) = One

\* A call with two candidates of positive weight that returned the first:
\* the second was refused by its draw.
C8_Witness ==
    /\ pc = "sampled"
    /\ Len(CurCandidates) >= 2
    /\ AllPositive(Cur, CurCandidates)
    /\ result = Some(CurCandidates[1].id)

-----------------------------------------------------------------------------
(* C9 *)

\* The zones other than the home zone whose capacity is at or below the
\* average.
ScarceZones == {z \in DOMAIN CurPerZone \ {Cur.zone} : Le(CurPerZone[z], CurAvg)}

\* C9: for a client whose home zone is below the average, every other zone
\* at or below the average has zone weight 0 (its multiplier times its
\* capacity), and sample never returns a backend of such a zone.
C9_NoSpillIntoScarce ==
    (Built /\ Lt(CurHome, CurAvg)) =>
        \A z \in ScarceZones :
            /\ Mul(Cur.zonal_multiplier[z], CurPerZone[z]) = Zero
            /\ pc = "sampled" => (result = None \/ BackendOf(result[1]).zone # z)

\* A client below the average, with backends of its own, whose call
\* accepted a backend of another zone below the average and returned a
\* backend of a zone above it.
C9_Witness ==
    /\ pc = "sampled"
    /\ Lt(CurHome, CurAvg)
    /\ Gt(CurHome, Zero)
    /\ \E id \in pred : BackendOf(id).zone \in ScarceZones
    /\ result # None
    /\ Gt(CurPerZone[BackendOf(result[1]).zone], CurAvg)

-----------------------------------------------------------------------------
(* C10 *)

\* C10: a backend whose weight is 0 is never returned by sample, also when
\* it is the first candidate visited, and a call all of whose candidates
\* have weight 0 returns none.
C10_ZeroNeverReturned ==
    pc = "sampled" =>
        LET bs == CurCandidates
        IN  /\ \A i \in DOMAIN bs :
                  Weight(Cur, bs[i]) = Zero => result # Some(bs[i].id)
            /\ PositiveAt(Cur, bs) = {} => result = None

\* A call whose first candidate has weight 0 (tested against 0/0 = NaN)
\* and whose second has a positive weight and is returned.
C10_Witness ==
    /\ pc = "sampled"
    /\ Len(CurCandidates) >= 2
    /\ Weight(Cur, CurCandidates[1]) = Zero
    /\ IsNaN(StepRatio(Zero, Weight(Cur, CurCandidates[1])))
    /\ Gt(Weight(Cur, CurCandidates[2]), Zero)
    /\ result = Some(CurCandidates[2].id)

-----------------------------------------------------------------------------
(* The fleet of the harness (test naive): one client per zone of the       *)
(* registry, every client issuing the same number of unfiltered requests.  *)
(* tally holds, per backend, the expected number of selections per request *)
(* of each client served so far.                                           *)

\* The registry of the harness: 1, 5 and 9 backends of capacity 1.0 in the
\* zones a, b and c.
ReferenceCounts == <<1, 5, 9>>

ReferenceRegistry ==
    [i \in 1..(ReferenceCounts[1] + ReferenceCounts[2] + ReferenceCounts[3]) |->
        Backend(i - 1,
                IF i <= ReferenceCounts[1] THEN ZoneOrder[1]
                ELSE IF i <= ReferenceCounts[1] + ReferenceCounts[2] THEN ZoneOrder[2]
                ELSE ZoneOrder[3],
                One)]

\* The zones that have a backend, in order.
PresentZones(backends) == SelectSeq(ZoneOrder, LAMBDA z : z \in ZonesOf(backends))

\* |_| true
AcceptAll(backends) == Ids(backends)

\* tally after one request of client c, in expectation.
Tallied(t, c) ==
    [id \in DOMAIN t |-> Add(t[id], SampleDist(c, AcceptAll(c.backends))[Some(id)])]

FleetInit ==
    /\ registry \in Registries \cup {ReferenceRegistry}
    /\ client = <<>>
    /\ pred = {}
    /\ result = None
    /\ pc = "start"
    /\ clients = <<>>
    /\ tally = <<>>
    /\ served = 0

\* let mut clients = zones.map(|zone| Client::new(zone, backends)); the
\* tally starts empty.
FleetBuild ==
    /\ pc = "start"
    /\ clients' = [k \in DOMAIN PresentZones(registry) |->
                      ClientNew(PresentZones(registry)[k], registry)]
    /\ tally' = [id \in Ids(registry) |-> Zero]
    /\ served' = 0
    /\ pc' = "serving"
    /\ UNCHANGED <<registry, client, pred, result>>

\* The loop body of the next client: client.sample(|_| true), tallied.
FleetServe ==
    /\ pc = "serving"
    /\ served < Len(clients)
    /\ tally' = Tallied(tally, clients[served + 1])
    /\ served' = served + 1
    /\ UNCHANGED <<registry, client, pred, result, pc, clients>>

FleetNext == FleetBuild \/ FleetServe

FleetSpec == FleetInit /\ [][FleetNext]_vars

\* Every client of the fleet has been served.
FleetDone == pc = "serving" /\ served = Len(clients)

RECURSIVE SumTally(_, _, _)
\* The tally of those of the first n backends that lie in zone z, summed.
SumTally(t, n, z) ==
    IF n = 0 THEN Zero
    ELSE IF registry[n].zone = z THEN Add(t[registry[n].id], SumTally(t, n - 1, z))
    ELSE SumTally(t, n - 1, z)

-----------------------------------------------------------------------------
(* C6 *)

\* C6: with one client per zone of the registry, each issuing the same
\* number of requests, the expected traffic on zone z summed over the
\* clients is perZoneCapacity[z] / avgCapacity per request of a client, and
\* every backend's is its capacity / avgCapacity; in the reference registry
\* every backend's share of the traffic is 1/15.
C6_LoadFollowsCapacity ==
    (FleetDone /\ registry # <<>>) =>
        /\ \A z \in ZonesOf(registry) :
              SumTally(tally, Len(registry), z) = Div(CurPerZone[z], CurAvg)
        /\ \A i \in DOMAIN registry :
              tally[registry[i].id] = Div(registry[i].capacity, CurAvg)
        /\ registry = ReferenceRegistry =>
              \A i \in DOMAIN registry :
                  Div(tally[registry[i].id], F64(served, 1)) = F64(1, 15)

\* The three clients of the reference registry have been served.
C6_Witness ==
    /\ FleetDone
    /\ registry = ReferenceRegistry
    /\ served = 3
    /\ clients[1].zonal_multiplier # (ZoneOrder[1] :> One)

====
